---------------------------- MODULE Spec2Model ----------------------------
(***************************************************************************)
(* The LDAP authentication driver (LDAPAuthDriver, handleError,            *)
(* createLDAPAuthRouter) and the SDK's session client, as state machines.  *)
(*                                                                         *)
(* JavaScript runs one callback at a time, so one action is one callback   *)
(* of the event loop: the handler of a directory event together with the   *)
(* continuation of the async function that the handler's resolve/reject    *)
(* wakes up, up to that function's next await.  The directory client       *)
(* library (ldapjs), the database and the network are the environment:     *)
(* they choose which event arrives next, and with which data.              *)
(***************************************************************************)
EXTENDS Naturals, Integers, Sequences, FiniteSets, TLC

(***************************************************************************)
(* Bounds of the model.                                                    *)
(***************************************************************************)
MaxVerify == 2
    \* number of verify() calls (one per login attempt), each with its own client

MaxReq == 2
    \* number of getUserID / refresh calls in progress at the same time

MaxUsers == 2
    \* rows of directus_users

MaxGroups == 3
MaxTime == 4
MaxPairs == 3
    \* group names one fetchUserGroups call collects

(***************************************************************************)
(* JavaScript values.                                                      *)
(***************************************************************************)
Undefined == "undefined"
    \* a missing property

Values == {Undefined, "", "x"}
    \* a configuration or payload field: missing, the empty string, a non-empty string

Truthy(v) == v # Undefined /\ v # ""
    \* what `!v` negates for such a field

(***************************************************************************)
(* ldapjs errors.  The three of CredentialErrors are the classes that      *)
(* handleError tests with instanceof; the others stand for every other     *)
(* class: two directory result errors and two transport errors.            *)
(***************************************************************************)
CredentialErrors ==
    {"InappropriateAuthenticationError", "InvalidCredentialsError", "InsufficientAccessRightsError"}

TransportErrors == {"ConnectionError", "SocketError"}

LdapErrors == CredentialErrors \cup {"OperationsError", "NoSuchObjectError"} \cup TransportErrors

(***************************************************************************)
(* The exceptions of the driver's taxonomy.                                *)
(***************************************************************************)
InvalidCredentialsException == "InvalidCredentials"
ServiceUnavailableException == "ServiceUnavailable"
InvalidConfigException == "InvalidConfig"
UnexpectedResponseException == "UnexpectedResponse"
InvalidPayloadException == "InvalidPayload"

\* handleError without the InsufficientAccessRightsError test
handleError_TwoClasses(e) ==
    IF e \in {"InappropriateAuthenticationError", "InvalidCredentialsError"}
    THEN InvalidCredentialsException
    ELSE ServiceUnavailableException

\* handleError that hands back every error it does not classify
handleError_PassThrough(e) ==
    IF e \in {"InappropriateAuthenticationError", "InvalidCredentialsError",
              "InsufficientAccessRightsError"}
    THEN InvalidCredentialsException
    ELSE e

handleError(e) ==
    IF \/ e = "InappropriateAuthenticationError"
       \/ e = "InvalidCredentialsError"
       \/ e = "InsufficientAccessRightsError"
    THEN InvalidCredentialsException
    ELSE ServiceUnavailableException

(***************************************************************************)
(* A promise settles once: resolve and reject do nothing afterwards.       *)
(***************************************************************************)
Settle(current, outcome) == IF current = "pending" THEN outcome ELSE current

(***************************************************************************)
(* Strings the driver lower-cases: distinguished names, and the names of   *)
(* directory groups and of roles.  toLowerCase and SQL LOWER, on them.     *)
(***************************************************************************)
DNs == {"CN=Ann", "cn=ann", "cn=bob"}
    \* the dn of a directory entry, as the directory spells it

GroupNames == {"ADMIN", "editor", "staff"}
    \* the cn of a directory group

RoleNames == <<"Admin", "Editor">>
    \* directus_roles, in the order the database returns its rows; a role's id is its row number

toLowerCase(s) ==
    CASE s = "CN=Ann" -> "cn=ann"
      [] s = "ADMIN" -> "admin"
      [] s = "Admin" -> "admin"
      [] s = "Editor" -> "editor"
      [] OTHER -> s

(***************************************************************************)
(* An attribute of a directory entry (ldapjs `object`): absent, a scalar   *)
(* (one value) or a list (several values).                                 *)
(***************************************************************************)
Absent == [kind |-> "absent", vals |-> <<>>]
Scalar(v) == [kind |-> "scalar", vals |-> <<v>>]
List(vs) == [kind |-> "list", vals |-> vs]

\* typeof a === 'object' ? a[0] : a, for an attribute of strings
FirstOf(a) ==
    IF a.kind = "list" THEN a.vals[1]
    ELSE IF a.kind = "scalar" THEN a.vals[1]
    ELSE Undefined

\* A number, or NaN.  The values of userAccountControl are decimal strings,
\* written here as the numbers they spell; Number(undefined) is NaN.
NaN == [nan |-> TRUE, n |-> 0]
Num(n) == [nan |-> FALSE, n |-> n]

\* typeof a === 'object' ? Number(a[0]) : Number(a)
NumberOf(a) ==
    IF a.kind = "list" THEN Num(a.vals[1])
    ELSE IF a.kind = "scalar" THEN Num(a.vals[1])
    ELSE NaN

\* a & b on non-negative 32-bit integers
RECURSIVE BitAnd(_, _)
BitAnd(a, b) ==
    IF a = 0 \/ b = 0 THEN 0
    ELSE (a % 2) * (b % 2) + 2 * BitAnd(a \div 2, b \div 2)

INVALID_ACCOUNT_FLAGS == 8388626

\* the account check that demands every flagged bit instead of any
AccountInvalid_AllBits(userInfo) ==
    /\ userInfo.found
    /\ ~userInfo.userAccountControl.nan
    /\ BitAnd(userInfo.userAccountControl.n, INVALID_ACCOUNT_FLAGS) = INVALID_ACCOUNT_FLAGS

\* userInfo?.userAccountControl && userInfo.userAccountControl & INVALID_ACCOUNT_FLAGS
AccountInvalid(userInfo) ==
    /\ userInfo.found
    /\ ~userInfo.userAccountControl.nan /\ userInfo.userAccountControl.n # 0
    /\ BitAnd(userInfo.userAccountControl.n, INVALID_ACCOUNT_FLAGS) # 0

\* the user fetchUserInfo's searchEntry handler builds from an entry
UserOf(object) ==
    [found |-> TRUE,
     firstName |-> FirstOf(object.givenName),
     lastName |-> FirstOf(object.sn),
     email |-> FirstOf(object.mail),
     userAccountControl |-> NumberOf(object.userAccountControl)]

\* what fetchUserInfo resolves with when the search ends without an entry
NoUserInfo ==
    [found |-> FALSE, firstName |-> Undefined, lastName |-> Undefined,
     email |-> Undefined, userAccountControl |-> NaN]

\* a searchEntry handler that keeps only the last entry's cn
AddGroups_Overwrite(userGroups, cn) ==
    IF cn.kind = "list" THEN cn.vals
    ELSE IF cn.kind = "scalar" /\ cn.vals[1] # "" THEN <<cn.vals[1]>>
    ELSE userGroups

\* fetchUserGroups' searchEntry handler: the groups after an entry with this cn
AddGroups(userGroups, cn) ==
    IF cn.kind = "list" THEN userGroups \o cn.vals
    ELSE IF cn.kind = "scalar" /\ cn.vals[1] # "" THEN Append(userGroups, cn.vals[1])
    ELSE userGroups

\* fetchUserId: the id (row number) of the first user whose external identifier
\* equals userDn ignoring case, 0 when there is none
fetchUserId(table, userDn) ==
    LET hits == {i \in 1..Len(table) :
                    toLowerCase(table[i].external_identifier) = toLowerCase(userDn)}
    IN  IF hits = {} THEN 0 ELSE CHOOSE i \in hits : \A j \in hits : i <= j

\* the role query without LOWER and toLowerCase
RoleOfGroups_CaseSensitive(userGroups) ==
    LET names == {userGroups[k] : k \in 1..Len(userGroups)}
        hits == {i \in 1..Len(RoleNames) : RoleNames[i] \in names}
    IN  IF hits = {} THEN 0 ELSE CHOOSE i \in hits : \A j \in hits : i <= j

\* the role query of getUserID: the first role whose name, lower-cased, is one
\* of the lower-cased group names; 0 when there is none
RoleOfGroups(userGroups) ==
    LET lowered == {toLowerCase(userGroups[k]) : k \in 1..Len(userGroups)}
        hits == {i \in 1..Len(RoleNames) : toLowerCase(RoleNames[i]) \in lowered}
    IN  IF hits = {} THEN 0 ELSE CHOOSE i \in hits : \A j \in hits : i <= j

VARIABLES
    vResult,    \* verify: per call, "idle", "pending", "ok" or the exception it rejected with
    vClient,    \* verify: per call, its client: "none", "open", "destroyed" (client.destroy() called)
    vBind,      \* verify: per call, the bind: "none", "sent", "dropped", or what its callback got
    vEvent,     \* verify: per call, the client's 'error' event: "none" or the error it carried
    req,        \* getUserID / refresh: per request, the call, where it is and its local variables
    ops,        \* per request, the operations it issued on bindClient that have not terminated
    users,      \* directus_users, in row order; a user's id is its row number
    groupDn,    \* config.groupDn
    config,     \* constructor: the provider configuration it is given
    driver,     \* constructor: "new", "constructed" or the exception it threw
    bindClient, \* constructor: "none", or "created" by ldap.createClient (which connects)
    env,        \* router: the environment settings of the refresh cookie
    body,       \* router: the body of the request being answered
    tokens,     \* router: what authenticationService.login returned for it
    resp,       \* router: the response: status, res.locals.payload.data and the cookie set
    now,        \* SDK client: the clock of the timers
    sdk,        \* SDK client: the auth options the client was constructed with
    storage,    \* SDK client: sdk.storage, the session the client holds
    timer,      \* SDK client: the one refresh timer
    flight,     \* SDK client: the requests sent and not yet answered
    ttl,        \* the server: the lifetime of the access tokens it issues
    pairs,      \* the server: the token pairs it issued, in order
    sent        \* the server: the refresh and logout requests it received

verifyVars == <<vResult, vClient, vBind, vEvent>>
driverVars == <<req, ops, users, groupDn>>
ctorVars == <<config, driver, bindClient>>
routerVars == <<env, body, tokens, resp>>
clientVars == <<now, sdk, storage, timer, flight, ttl, pairs, sent>>

vars == <<vResult, vClient, vBind, vEvent, req, ops, users, groupDn,
          config, driver, bindClient, env, body, tokens, resp,
          now, sdk, storage, timer, flight, ttl, pairs, sent>>

(***************************************************************************)
(* LDAPAuthDriver.verify                                                   *)
(***************************************************************************)
Attempts == 1..MaxVerify

VerifyInit ==
    /\ vResult = [i \in Attempts |-> "idle"]
    /\ vClient = [i \in Attempts |-> "none"]
    /\ vBind = [i \in Attempts |-> "none"]
    /\ vEvent = [i \in Attempts |-> "none"]

\* verify(user, password): the guard, then createClient and client.bind
verify(i, external_identifier, password) ==
    /\ vResult[i] = "idle"
    /\ IF ~Truthy(external_identifier) \/ ~Truthy(password)
       THEN /\ vResult' = [vResult EXCEPT ![i] = InvalidCredentialsException]
            /\ UNCHANGED <<vClient, vBind>>
       ELSE /\ vResult' = [vResult EXCEPT ![i] = "pending"]
            /\ vClient' = [vClient EXCEPT ![i] = "open"]
            /\ vBind' = [vBind EXCEPT ![i] = "sent"]
    /\ UNCHANGED vEvent

\* client.on('error', ...): the client (reconnect: false) lost or never got its
\* socket.  A bind still queued for the connection is never sent and its callback
\* never runs (queued); one already sent is answered by the library with a
\* ConnectionError when the socket closes.
verify_onError(i, e, queued) ==
    /\ vClient[i] = "open"
    /\ vBind[i] = "sent"
    /\ vEvent[i] = "none"
    /\ vEvent' = [vEvent EXCEPT ![i] = e]
    /\ vResult' = [vResult EXCEPT ![i] = Settle(@, handleError(e))]
    /\ vBind' = [vBind EXCEPT ![i] = IF queued THEN "dropped" ELSE "sent"]
    /\ UNCHANGED vClient

\* what the bind callback can get: anything while the socket is up, only the
\* library's ConnectionError once the socket has failed
BindReplies(i) ==
    IF vEvent[i] = "none" THEN {"ok"} \cup LdapErrors ELSE {"ConnectionError"}

\* the callback of client.bind: reject or resolve, then client.destroy()
verify_onBind(i, err) ==
    /\ vClient[i] = "open"
    /\ vBind[i] = "sent"
    /\ vBind' = [vBind EXCEPT ![i] = err]
    /\ vResult' = [vResult EXCEPT ![i] =
                      Settle(@, IF err # "ok" THEN handleError(err) ELSE "ok")]
    /\ vClient' = [vClient EXCEPT ![i] = "destroyed"]
    /\ UNCHANGED vEvent

VerifyCall == \E i \in Attempts, id \in Values, pw \in Values : verify(i, id, pw)
VerifyClientError ==
    \E i \in Attempts, e \in TransportErrors, queued \in BOOLEAN : verify_onError(i, e, queued)
VerifyBindCallback == \E i \in Attempts : \E err \in BindReplies(i) : verify_onBind(i, err)

NextVerify ==
    \/ VerifyCall /\ UNCHANGED <<driverVars, ctorVars, routerVars, clientVars>>
    \/ VerifyClientError /\ UNCHANGED <<driverVars, ctorVars, routerVars, clientVars>>
    \/ VerifyBindCallback /\ UNCHANGED <<driverVars, ctorVars, routerVars, clientVars>>

(***************************************************************************)
(* The constructor of LDAPAuthDriver.                                      *)
(***************************************************************************)
\* config.client: not an object (undefined, a string), or an object with its socketPath
Clients ==
    {[object |-> FALSE, socketPath |-> Undefined]}
    \cup {[object |-> TRUE, socketPath |-> p] : p \in Values}

Configs ==
    [bindDn : Values, bindPassword : Values, userDn : Values, provider : Values,
     clientUrl : Values, client : Clients]

\* config.client?.socketPath
SocketPathOf(client) == IF client.object THEN client.socketPath ELSE Undefined

\* the constructor's test without the provider
ConfigInvalid_NoProvider(c) ==
    \/ ~Truthy(c.bindDn)
    \/ ~Truthy(c.bindPassword)
    \/ ~Truthy(c.userDn)
    \/ (~Truthy(c.clientUrl) /\ ~Truthy(SocketPathOf(c.client)))

\* !bindDn || !bindPassword || !userDn || !provider || (!clientUrl && !config.client?.socketPath)
ConfigInvalid(c) ==
    \/ ~Truthy(c.bindDn)
    \/ ~Truthy(c.bindPassword)
    \/ ~Truthy(c.userDn)
    \/ ~Truthy(c.provider)
    \/ (~Truthy(c.clientUrl) /\ ~Truthy(SocketPathOf(c.client)))

CtorInit ==
    /\ config \in Configs
    /\ driver = "new"
    /\ bindClient = "none"

CtorOff ==
    /\ config = [bindDn |-> "x", bindPassword |-> "x", userDn |-> "x", provider |-> "x",
                 clientUrl |-> "x", client |-> [object |-> FALSE, socketPath |-> Undefined]]
    /\ driver = "new"
    /\ bindClient = "none"

\* new LDAPAuthDriver(options, config): it throws, or creates the bind client
constructor ==
    /\ driver = "new"
    /\ IF ConfigInvalid(config)
       THEN /\ driver' = InvalidConfigException
            /\ UNCHANGED bindClient
       ELSE /\ driver' = "constructed"
            /\ bindClient' = "created"
    /\ UNCHANGED config

(***************************************************************************)
(* createLDAPAuthRouter: the handler of POST /.                            *)
(***************************************************************************)
\* the modes a request can carry: none, the empty string, the two valid ones, another
Modes == {Undefined, "", "json", "cookie", "session"}

Bodies == [identifier : Values, password : Values, mode : Modes]

\* what authenticationService.login returns or throws
LoginResults ==
    {[ok |-> TRUE, accessToken |-> "AT1", refreshToken |-> "RT1", expires |-> 900000],
     [ok |-> TRUE, accessToken |-> "AT2", refreshToken |-> "RT2", expires |-> 900000],
     [ok |-> FALSE, accessToken |-> Undefined, refreshToken |-> Undefined, expires |-> 0]}

Envs ==
    [REFRESH_TOKEN_TTL : {"7d", "15m"},
     REFRESH_TOKEN_COOKIE_SAME_SITE : {Undefined, "", "lax", "strict", "none"},
     REFRESH_TOKEN_COOKIE_SECURE : {Undefined, "true", "false"},
     REFRESH_TOKEN_COOKIE_DOMAIN : {Undefined, "example.org"}]

\* ms(): a duration string in milliseconds
ms(d) == CASE d = "7d" -> 7 * 24 * 60 * 60 * 1000
           [] d = "15m" -> 15 * 60 * 1000

\* loginSchema.validate(req.body): required non-empty strings, mode one of two when given
SchemaError(b) ==
    \/ ~Truthy(b.identifier)
    \/ ~Truthy(b.password)
    \/ (b.mode # Undefined /\ b.mode \notin {"cookie", "json"})

NoCookie ==
    [set |-> FALSE, value |-> Undefined, httpOnly |-> FALSE, domain |-> Undefined,
     maxAge |-> 0, secure |-> "false", sameSite |-> Undefined]

\* the cookie of a response in cookie mode
CookieOf(e, refreshToken) ==
    [set |-> TRUE, value |-> refreshToken, httpOnly |-> TRUE,
     domain |-> e.REFRESH_TOKEN_COOKIE_DOMAIN,
     maxAge |-> ms(e.REFRESH_TOKEN_TTL),
     secure |-> IF e.REFRESH_TOKEN_COOKIE_SECURE = Undefined THEN "false"
                ELSE e.REFRESH_TOKEN_COOKIE_SECURE,
     sameSite |-> IF Truthy(e.REFRESH_TOKEN_COOKIE_SAME_SITE)
                  THEN e.REFRESH_TOKEN_COOKIE_SAME_SITE ELSE "strict"]

NoResponse ==
    [status |-> "none", access_token |-> Undefined, expires |-> 0,
     refresh_token |-> Undefined, cookie |-> NoCookie]

\* the response that puts the refresh token in the body in every mode
ResponseOf_AlwaysInBody(e, b, login) ==
    [status |-> "ok", access_token |-> login.accessToken, expires |-> login.expires,
     refresh_token |-> login.refreshToken,
     cookie |-> IF b.mode = "cookie" THEN CookieOf(e, login.refreshToken) ELSE NoCookie]

\* the payload and the cookie of a successful login, from `const mode = ...` on
ResponseOf(e, b, login) ==
    LET mode == IF Truthy(b.mode) THEN b.mode ELSE "json"
    IN  [status |-> "ok", access_token |-> login.accessToken, expires |-> login.expires,
         refresh_token |-> IF mode = "json" THEN login.refreshToken ELSE Undefined,
         cookie |-> IF mode = "cookie" THEN CookieOf(e, login.refreshToken) ELSE NoCookie]

RouterInit ==
    /\ env \in Envs
    /\ body = [identifier |-> Undefined, password |-> Undefined, mode |-> Undefined]
    /\ tokens = [ok |-> FALSE, accessToken |-> Undefined, refreshToken |-> Undefined,
                 expires |-> 0]
    /\ resp = NoResponse

RouterOff ==
    /\ env = [REFRESH_TOKEN_TTL |-> "7d", REFRESH_TOKEN_COOKIE_SAME_SITE |-> Undefined,
              REFRESH_TOKEN_COOKIE_SECURE |-> Undefined,
              REFRESH_TOKEN_COOKIE_DOMAIN |-> Undefined]
    /\ body = [identifier |-> Undefined, password |-> Undefined, mode |-> Undefined]
    /\ tokens = [ok |-> FALSE, accessToken |-> Undefined, refreshToken |-> Undefined,
                 expires |-> 0]
    /\ resp = NoResponse

\* POST / with body b, for which authenticationService.login would give `login`
postLogin(b, login) ==
    /\ body' = b
    /\ IF SchemaError(b)
       THEN /\ tokens' = [ok |-> FALSE, accessToken |-> Undefined,
                          refreshToken |-> Undefined, expires |-> 0]
            /\ resp' = [NoResponse EXCEPT !.status = InvalidPayloadException]
       ELSE /\ tokens' = login
            /\ resp' = IF login.ok THEN ResponseOf(env, b, login)
                       ELSE [NoResponse EXCEPT !.status = InvalidCredentialsException]
    /\ UNCHANGED env

(***************************************************************************)
(* LDAPAuthDriver.getUserID and LDAPAuthDriver.refresh, on the shared      *)
(* bindClient.  A request is one call of either; its slot is free again    *)
(* when the call has ended and every operation it issued has terminated.   *)
(***************************************************************************)
Reqs == 1..MaxReq

OpKinds == {"health", "rebind", "dn", "groups", "info"}

IdleReq ==
    [call |-> "none", pc |-> "idle", result |-> "none", last |-> "none",
     hc |-> "none", hcBy |-> "none", hcErr |-> "none",
     userDn |-> Undefined, userId |-> 0, userGroups |-> <<>>, userRole |-> 0,
     userInfo |-> NoUserInfo]

\* the entries an attribute search can deliver (the attributes fetchUserInfo asks for)
UacBits == {2, 16, 8388608, 512, 65536}
    \* ACCOUNTDISABLE, LOCKOUT, PASSWORD_EXPIRED, and two bits outside the mask
    \* (NORMAL_ACCOUNT, DONT_EXPIRE_PASSWORD)

RECURSIVE SumOf(_)
SumOf(S) == IF S = {} THEN 0 ELSE LET x == CHOOSE x \in S : TRUE IN x + SumOf(S \ {x})

UacNumbers == {SumOf(S) : S \in SUBSET UacBits}

InfoObjects ==
    {[givenName |-> Scalar("Ann"), sn |-> Scalar("Lee"), mail |-> Scalar("ann@x"),
      userAccountControl |-> Scalar(n)] : n \in UacNumbers}
    \cup
    {[givenName |-> List(<<"Ann", "Annie">>), sn |-> List(<<"Lee", "Li">>),
      mail |-> List(<<"ann@x", "a@y">>),
      userAccountControl |-> List(<<n, 512>>)] : n \in {514, 66048}}
    \cup
    {[givenName |-> Scalar("Ann"), sn |-> Scalar("Lee"), mail |-> Scalar("ann@x"),
      userAccountControl |-> Absent]}

\* the cn of an entry a group search can deliver: none, one value or several
\* (a value of cn is a directory string, which is never empty)
CnValues ==
    {Absent, Scalar("ADMIN"), Scalar("staff"), Scalar("editor"),
     List(<<"editor", "ADMIN">>)}

\* the result an 'end' event can carry: null, status 0, another status
EndResults == {"null", "status 0", "status 32"}

DriverInit ==
    /\ req = [r \in Reqs |-> IdleReq]
    /\ ops = [r \in Reqs |-> {}]
    /\ users = <<>>
    /\ groupDn \in {Undefined, "ou=groups"}

\* the call ends: it throws the exception, or returns (result "ok", the id in userId)
Ended(q, outcome, event) == [q EXCEPT !.pc = "done", !.result = outcome, !.last = event]

\* a step's effect on request r: its new record and the operations it issued and ended
Step(r, q, issued, ended) ==
    /\ req' = [req EXCEPT ![r] = q]
    /\ ops' = [ops EXCEPT ![r] = (@ \ ended) \cup issued]

(***************************************************************************)
(* The continuations of getUserID and refresh after each await: the new    *)
(* record of the request and the search it issues, if any.                 *)
(***************************************************************************)
Go(q, issued) == [q |-> q, issued |-> issued]

\* getUserID from `if (userId)` on
AfterRole_NoLinkTest(q) ==
    Go([q EXCEPT !.pc = "info"], {"info"})

AfterRole(q) ==
    IF q.userId # 0
    THEN Go([q EXCEPT !.pc = "update"], {})
    ELSE Go([q EXCEPT !.pc = "info"], {"info"})

\* getUserID once fetchUserGroups has resolved
AfterGroups(q, userGroups) ==
    IF Len(userGroups) # 0
    THEN Go([q EXCEPT !.pc = "role", !.userGroups = userGroups], {})
    ELSE AfterRole([q EXCEPT !.userGroups = userGroups])

\* getUserID once fetchUserId has resolved: fetchUserGroups
AfterUserId(q, cfgGroupDn) ==
    IF ~Truthy(cfgGroupDn)
    THEN AfterGroups(q, <<>>)
    ELSE Go([q EXCEPT !.pc = "groups"], {"groups"})

\* the exception getUserID throws when fetchUserDn found no entry
NoEntryException_Unexpected == UnexpectedResponseException

NoEntryException == InvalidCredentialsException

\* getUserID once fetchUserDn has resolved
AfterUserDn(q, userDn, event) ==
    IF userDn = Undefined
    THEN Go(Ended(q, NoEntryException, event), {})
    ELSE Go([q EXCEPT !.pc = "fetchId", !.userDn = userDn], {})

\* getUserID once fetchUserInfo has resolved; of the user, createOne gets the names and the email
AfterUserInfo(q, userInfo, event) ==
    IF ~userInfo.found
    THEN Go(Ended(q, InvalidCredentialsException, event), {})
    ELSE Go([q EXCEPT !.pc = "create",
                      !.userInfo = [userInfo EXCEPT !.userAccountControl = NaN]], {})

\* a refresh that also rejects when the attribute search found no entry
AfterRefreshInfo_RequireEntry(q, userInfo, event) ==
    IF ~userInfo.found \/ AccountInvalid(userInfo)
    THEN Go(Ended([q EXCEPT !.userInfo = userInfo], InvalidCredentialsException, event), {})
    ELSE Go(Ended([q EXCEPT !.userInfo = userInfo], "ok", event), {})

\* refresh once fetchUserInfo has resolved
AfterRefreshInfo(q, userInfo, event) ==
    IF AccountInvalid(userInfo)
    THEN Go(Ended([q EXCEPT !.userInfo = userInfo], InvalidCredentialsException, event), {})
    ELSE Go(Ended([q EXCEPT !.userInfo = userInfo], "ok", event), {})

\* the caller once validateBindClient has resolved
AfterHealth(q) ==
    IF q.call = "getUserID"
    THEN Go([q EXCEPT !.pc = "dn"], {"dn"})
    ELSE Go([q EXCEPT !.pc = "info"], {"info"})

\* a health check that every resolve and reject settles again
SettleHealth_Resettle(q, outcome, event, err) ==
    LET q1 == [q EXCEPT !.hc = outcome, !.hcBy = event, !.hcErr = err]
    IN  IF q.hc = "pending"
        THEN IF outcome = "ok" THEN AfterHealth(q1) ELSE Go(Ended(q1, outcome, event), {})
        ELSE Go(q1, {})

\* the health check settles (if it has not yet) by this event, and its caller goes on
SettleHealth(q, outcome, event, err) ==
    IF q.hc # "pending" THEN Go(q, {})
    ELSE LET q1 == [q EXCEPT !.hc = outcome, !.hcBy = event, !.hcErr = err]
         IN  IF outcome = "ok" THEN AfterHealth(q1) ELSE Go(Ended(q1, outcome, event), {})

\* the promise of fetchUserInfo settles (if it has not yet): resolve(user) / resolve(undefined)
SettleInfo(q, userInfo, event) ==
    IF q.pc # "info" THEN Go(q, {})
    ELSE IF q.call = "getUserID" THEN AfterUserInfo(q, userInfo, event)
    ELSE AfterRefreshInfo(q, userInfo, event)

\* a search promise rejects (if it has not settled yet): the call throws
Reject(q, stage, exception, event) ==
    IF q.pc # stage THEN Go(q, {}) ELSE Go(Ended(q, exception, event), {})

(***************************************************************************)
(* The calls.                                                              *)
(***************************************************************************)
\* the exception getUserID throws for a payload without identifier
NoIdentifierException == InvalidCredentialsException

\* getUserID(payload): the identifier test, then validateBindClient's search
getUserID(r, identifier) ==
    /\ req[r].pc = "idle"
    /\ ops[r] = {}
    /\ IF ~Truthy(identifier)
       THEN Step(r, Ended([IdleReq EXCEPT !.call = "getUserID"],
                          NoIdentifierException, "no identifier"), {}, {})
       ELSE Step(r, [IdleReq EXCEPT !.call = "getUserID", !.pc = "health", !.hc = "pending"],
                 {"health"}, {})
    /\ UNCHANGED <<users, groupDn>>

\* refresh(user): validateBindClient's search
refresh(r) ==
    /\ req[r].pc = "idle"
    /\ ops[r] = {}
    /\ Step(r, [IdleReq EXCEPT !.call = "refresh", !.pc = "health", !.hc = "pending"],
            {"health"}, {})
    /\ UNCHANGED <<users, groupDn>>

\* the caller has its result; the slot is free for the next request
Return(r) ==
    /\ req[r].pc = "done"
    /\ ops[r] = {}
    /\ Step(r, IdleReq, {}, {})
    /\ UNCHANGED <<users, groupDn>>

(***************************************************************************)
(* validateBindClient                                                      *)
(***************************************************************************)
\* the search callback with err: no response object, no events
validateBindClient_onSearchErr(r, err) ==
    /\ "health" \in ops[r]
    /\ req[r].hc = "pending"
    /\ LET k == SettleHealth(req[r], handleError(err), "health search err", err)
       IN  Step(r, k.q, k.issued, {"health"})
    /\ UNCHANGED <<users, groupDn>>

\* res.on('searchEntry')
validateBindClient_onEntry(r) ==
    /\ "health" \in ops[r]
    /\ LET k == SettleHealth(req[r], "ok", "health entry", "none")
       IN  Step(r, k.q, k.issued, {})
    /\ UNCHANGED <<users, groupDn>>

\* res.on('error'): reject, or on an OperationsError rebind
validateBindClient_onError(r, err) ==
    /\ "health" \in ops[r]
    /\ IF err # "OperationsError"
       THEN LET k == SettleHealth(req[r], handleError(err), "health error", err)
            IN  Step(r, k.q, k.issued, {"health"})
       ELSE Step(r, req[r], {"rebind"}, {"health"})
    /\ UNCHANGED <<users, groupDn>>

\* the outcome of the rebind's callback, from the error it got
RebindOutcome_Raw(err) ==
    IF err = "ok" THEN "ok" ELSE handleError(err)

RebindOutcome(err) ==
    IF err = "ok" THEN "ok"
    ELSE IF handleError(err) = InvalidCredentialsException THEN InvalidConfigException
    ELSE handleError(err)

\* the callback of the rebind
validateBindClient_onRebind(r, err) ==
    /\ "rebind" \in ops[r]
    /\ LET k == SettleHealth(req[r], RebindOutcome(err), "rebind", err)
       IN  Step(r, k.q, k.issued, {"rebind"})
    /\ UNCHANGED <<users, groupDn>>

\* res.on('end')
validateBindClient_onEnd(r, result) ==
    /\ "health" \in ops[r]
    /\ IF result = "status 0"
       THEN LET k == SettleHealth(req[r], UnexpectedResponseException, "health end", "none")
            IN  Step(r, k.q, k.issued, {"health"})
       ELSE Step(r, req[r], {}, {"health"})
    /\ UNCHANGED <<users, groupDn>>

(***************************************************************************)
(* fetchUserDn                                                             *)
(***************************************************************************)
fetchUserDn_onSearchErr(r, err) ==
    /\ "dn" \in ops[r]
    /\ req[r].pc = "dn"
    /\ LET k == Reject(req[r], "dn", handleError(err), "dn search err")
       IN  Step(r, k.q, k.issued, {"dn"})
    /\ UNCHANGED <<users, groupDn>>

\* res.on('searchEntry'): resolve(object.dn.toLowerCase())
fetchUserDn_onEntry(r, dn) ==
    /\ "dn" \in ops[r]
    /\ LET k == IF req[r].pc = "dn"
                THEN AfterUserDn(req[r], toLowerCase(dn), "dn entry")
                ELSE Go(req[r], {})
       IN  Step(r, k.q, k.issued, {})
    /\ UNCHANGED <<users, groupDn>>

fetchUserDn_onError(r, err) ==
    /\ "dn" \in ops[r]
    /\ LET k == Reject(req[r], "dn", handleError(err), "dn error")
       IN  Step(r, k.q, k.issued, {"dn"})
    /\ UNCHANGED <<users, groupDn>>

\* res.on('end'): resolve(undefined)
fetchUserDn_onEnd(r) ==
    /\ "dn" \in ops[r]
    /\ LET k == IF req[r].pc = "dn"
                THEN AfterUserDn(req[r], Undefined, "dn end")
                ELSE Go(req[r], {})
       IN  Step(r, k.q, k.issued, {"dn"})
    /\ UNCHANGED <<users, groupDn>>

(***************************************************************************)
(* The database steps of getUserID.  Each runs at one moment between the   *)
(* call and the await's return.                                            *)
(***************************************************************************)
\* const userId = await this.fetchUserId(userDn), then fetchUserGroups(userDn)
getUserID_fetchUserId(r) ==
    /\ req[r].pc = "fetchId"
    /\ LET k == AfterUserId([req[r] EXCEPT !.userId = fetchUserId(users, req[r].userDn)],
                            groupDn)
       IN  Step(r, k.q, k.issued, {})
    /\ UNCHANGED <<users, groupDn>>

\* userRole = await this.knex.select('id').from('directus_roles')...first()
getUserID_roleQuery(r) ==
    /\ req[r].pc = "role"
    /\ LET k == AfterRole([req[r] EXCEPT !.userRole = RoleOfGroups(req[r].userGroups),
                                         !.userGroups = <<>>])
       IN  Step(r, k.q, k.issued, {})
    /\ UNCHANGED <<users, groupDn>>

\* usersService.updateOne(userId, { role: userRole?.id ?? null })
updateOne(table, userId, role) == [table EXCEPT ![userId].role = role]

\* usersService.createOne({...})
createOne(table, q) ==
    Append(table, [first_name |-> q.userInfo.firstName,
                   last_name |-> q.userInfo.lastName,
                   email |-> q.userInfo.email,
                   external_identifier |-> q.userDn,
                   role |-> q.userRole])

\* await this.usersService.updateOne(...); return userId
getUserID_updateOne(r) ==
    /\ req[r].pc = "update"
    /\ users' = updateOne(users, req[r].userId, req[r].userRole)
    /\ Step(r, Ended(req[r], "ok", "update"), {}, {})
    /\ UNCHANGED groupDn

\* await this.usersService.createOne(...)
getUserID_createOne(r) ==
    /\ req[r].pc = "create"
    /\ Len(users) < MaxUsers
    /\ users' = createOne(users, req[r])
    /\ Step(r, [req[r] EXCEPT !.pc = "refetch", !.userInfo = NoUserInfo], {}, {})
    /\ UNCHANGED groupDn

\* a getUserID that fails after createOne when the new user is not found again
getUserID_refetch_Throws(r) ==
    /\ req[r].pc = "refetch"
    /\ Step(r, Ended(req[r], InvalidCredentialsException, "create"), {}, {})
    /\ UNCHANGED <<users, groupDn>>

\* return (await this.fetchUserId(userDn)) as string
getUserID_refetch(r) ==
    /\ req[r].pc = "refetch"
    /\ Step(r, Ended([req[r] EXCEPT !.userId = fetchUserId(users, req[r].userDn)],
                     "ok", "create"), {}, {})
    /\ UNCHANGED <<users, groupDn>>

(***************************************************************************)
(* fetchUserGroups                                                         *)
(***************************************************************************)
fetchUserGroups_onSearchErr(r, err) ==
    /\ "groups" \in ops[r]
    /\ req[r].pc = "groups"
    /\ req[r].userGroups = <<>>
    /\ LET k == Reject(req[r], "groups", handleError(err), "groups search err")
       IN  Step(r, k.q, k.issued, {"groups"})
    /\ UNCHANGED <<users, groupDn>>

\* res.on('searchEntry'): userGroups grows by the entry's cn
fetchUserGroups_onEntry(r, cn) ==
    /\ "groups" \in ops[r]
    /\ req[r].pc = "groups"
    /\ Len(AddGroups(req[r].userGroups, cn)) <= MaxGroups
    /\ Step(r, [req[r] EXCEPT !.userGroups = AddGroups(@, cn)], {}, {})
    /\ UNCHANGED <<users, groupDn>>

fetchUserGroups_onError(r, err) ==
    /\ "groups" \in ops[r]
    /\ LET k == Reject([req[r] EXCEPT !.userGroups = <<>>], "groups", handleError(err),
                       "groups error")
       IN  Step(r, k.q, k.issued, {"groups"})
    /\ UNCHANGED <<users, groupDn>>

\* res.on('end'): resolve(userGroups)
fetchUserGroups_onEnd(r) ==
    /\ "groups" \in ops[r]
    /\ LET k == AfterGroups(req[r], req[r].userGroups)
       IN  Step(r, k.q, k.issued, {"groups"})
    /\ UNCHANGED <<users, groupDn>>

(***************************************************************************)
(* fetchUserInfo                                                           *)
(***************************************************************************)
fetchUserInfo_onSearchErr(r, err) ==
    /\ "info" \in ops[r]
    /\ req[r].pc = "info"
    /\ LET k == Reject(req[r], "info", handleError(err), "info search err")
       IN  Step(r, k.q, k.issued, {"info"})
    /\ UNCHANGED <<users, groupDn>>

\* res.on('searchEntry'): resolve(user)
fetchUserInfo_onEntry(r, object) ==
    /\ "info" \in ops[r]
    /\ LET k == SettleInfo(req[r], UserOf(object), "info entry")
       IN  Step(r, k.q, k.issued, {})
    /\ UNCHANGED <<users, groupDn>>

fetchUserInfo_onError(r, err) ==
    /\ "info" \in ops[r]
    /\ LET k == Reject(req[r], "info", handleError(err), "info error")
       IN  Step(r, k.q, k.issued, {"info"})
    /\ UNCHANGED <<users, groupDn>>

\* res.on('end'): resolve(undefined)
fetchUserInfo_onEnd(r) ==
    /\ "info" \in ops[r]
    /\ LET k == SettleInfo(req[r], NoUserInfo, "info end")
       IN  Step(r, k.q, k.issued, {"info"})
    /\ UNCHANGED <<users, groupDn>>

(***************************************************************************)
(* The driver's next-state relation.                                       *)
(***************************************************************************)
\* Each event, for a request among R and data among the given sets.
CallGetUserID(R, Ids) == \E r \in R, identifier \in Ids : getUserID(r, identifier)
CallRefresh(R) == \E r \in R : refresh(r)
Returns(R) == \E r \in R : Return(r)
HealthSearchErr(R, Errs) == \E r \in R, e \in Errs : validateBindClient_onSearchErr(r, e)
HealthEntry(R) == \E r \in R : validateBindClient_onEntry(r)
HealthError(R, Errs) == \E r \in R, e \in Errs : validateBindClient_onError(r, e)
HealthRebind(R, Errs) == \E r \in R, e \in {"ok"} \cup Errs : validateBindClient_onRebind(r, e)
HealthEnd(R, Results) == \E r \in R, result \in Results : validateBindClient_onEnd(r, result)
DnSearchErr(R, Errs) == \E r \in R, e \in Errs : fetchUserDn_onSearchErr(r, e)
DnEntry(R, Dns) == \E r \in R, dn \in Dns : fetchUserDn_onEntry(r, dn)
DnError(R, Errs) == \E r \in R, e \in Errs : fetchUserDn_onError(r, e)
DnEnd(R) == \E r \in R : fetchUserDn_onEnd(r)
FetchUserId(R) == \E r \in R : getUserID_fetchUserId(r)
GroupsSearchErr(R, Errs) == \E r \in R, e \in Errs : fetchUserGroups_onSearchErr(r, e)
GroupsEntry(R, Cns) == \E r \in R, cn \in Cns : fetchUserGroups_onEntry(r, cn)
GroupsError(R, Errs) == \E r \in R, e \in Errs : fetchUserGroups_onError(r, e)
GroupsEnd(R) == \E r \in R : fetchUserGroups_onEnd(r)
RoleQuery(R) == \E r \in R : getUserID_roleQuery(r)
UpdateOne(R) == \E r \in R : getUserID_updateOne(r)
InfoSearchErr(R, Errs) == \E r \in R, e \in Errs : fetchUserInfo_onSearchErr(r, e)
InfoEntry(R, Objects) == \E r \in R, object \in Objects : fetchUserInfo_onEntry(r, object)
InfoError(R, Errs) == \E r \in R, e \in Errs : fetchUserInfo_onError(r, e)
InfoEnd(R) == \E r \in R : fetchUserInfo_onEnd(r)
CreateOne(R) == \E r \in R : getUserID_createOne(r)
Refetch(R) == \E r \in R : getUserID_refetch(r)

(***************************************************************************)
(* The SDK client, sdk.auth: login, logout and the refresh timer, against  *)
(* a server that answers after any delay.  Time is counted in ticks of the *)
(* timers' clock.                                                          *)
(***************************************************************************)
Null == [kind |-> "null", n |-> 0]
AccessToken(n) == [kind |-> "access", n |-> n]
RefreshToken(n) == [kind |-> "refresh", n |-> n]
CookieToken(n) == [kind |-> "cookie", n |-> n]

\* the values of msRefreshBeforeExpires and of the server's token lifetime
Leads == {1, 2}
Expiries == {3, 4}

Options == [autoRefresh : BOOLEAN, msRefreshBeforeExpires : Leads]

LoginPath == "/auth/login"
RefreshPath == "/auth/refresh"
LogoutPath == "/auth/logout"

\* a request: its path and the refresh_token of its body
Request(path, refresh_token) ==
    [path |-> path, refresh_token |-> refresh_token]

\* what the server keeps of a request: the request and when it was sent
Received(m, at) == [path |-> m.path, refresh_token |-> m.refresh_token, at |-> at]

\* the n-th answer of the server to a login or a refresh: a new pair in
\* data, and the refresh token again as the directus_refresh_token cookie
Reply(n, expires) ==
    [access_token |-> AccessToken(n), refresh_token |-> RefreshToken(n),
     expires |-> expires, cookie |-> CookieToken(n)]

NoSession ==
    [auth_token |-> Null, auth_refresh_token |-> Null, auth_expires |-> 0,
     expires_at |-> 0]

HeldRefreshToken_FromCookie(response) == response.cookie

\* in json mode, the refresh token the client keeps is the one of the body
HeldRefreshToken(response) == response.refresh_token

updateStorage(response, t) ==
    [auth_token |-> response.access_token,
     auth_refresh_token |-> HeldRefreshToken(response),
     auth_expires |-> response.expires,
     expires_at |-> t + response.expires]

NoTimer == [state |-> "idle", due |-> 0]

RefreshDue_AtExpiry(session, options) == session.expires_at

\* when the refresh of a session is due: its lead time before it expires
RefreshDue(session, options) ==
    session.expires_at - options.msRefreshBeforeExpires

\* the timer after a session is stored
scheduleRefresh(session, options) ==
    IF options.autoRefresh
    THEN [state |-> "armed", due |-> RefreshDue(session, options)]
    ELSE NoTimer

\* the timer after a call that cancels the pending refresh
clearTimer(t) == IF t.state = "armed" THEN [t EXCEPT !.state = "cancelled"] ELSE t

Active == storage.auth_token # Null

ClientInit ==
    /\ now = 0
    /\ sdk \in Options
    /\ storage = NoSession
    /\ timer = NoTimer
    /\ flight = {}
    /\ ttl \in Expiries
    /\ pairs = <<>>
    /\ sent = {}

ClientOff ==
    /\ now = 0
    /\ sdk = [autoRefresh |-> FALSE, msRefreshBeforeExpires |-> 1]
    /\ storage = NoSession
    /\ timer = NoTimer
    /\ flight = {}
    /\ ttl = 3
    /\ pairs = <<>>
    /\ sent = {}

\* the server issues its next pair in answer to request m
Issue(m) ==
    Append(pairs, [at |-> now, expires |-> ttl, by |-> m.path,
                   carried |-> m.refresh_token])

\* sdk.auth.login(credentials), up to the request
auth_login ==
    /\ \A m \in flight : m.path # LoginPath
    /\ flight' = flight \cup {Request(LoginPath, Null)}
    /\ timer' = clearTimer(timer)
    /\ UNCHANGED <<now, sdk, storage, ttl, pairs, sent>>

\* the answer to a login or a refresh arrives with a new pair
onTokens(m) ==
    /\ m \in flight
    /\ Len(pairs) < MaxPairs
    /\ storage' = updateStorage(Reply(Len(pairs) + 1, ttl), now)
    /\ timer' = scheduleRefresh(storage', sdk)
    /\ pairs' = Issue(m)
    /\ flight' = flight \ {m}
    /\ UNCHANGED <<now, sdk, ttl, sent>>

login_onResponse(m) ==
    /\ m.path = LoginPath
    /\ onTokens(m)

\* the server rejects the login
login_onReject(m) ==
    /\ m \in flight
    /\ m.path = LoginPath
    /\ flight' = flight \ {m}
    /\ UNCHANGED <<now, sdk, storage, timer, ttl, pairs, sent>>

\* the clock advances; a timer that is due fires first
tick ==
    /\ now < MaxTime
    /\ ~ (timer.state = "armed" /\ timer.due <= now)
    /\ now' = now + 1
    /\ UNCHANGED <<sdk, storage, timer, flight, ttl, pairs, sent>>

\* the refresh timer fires: the refresh request
timer_fire ==
    /\ timer.state = "armed"
    /\ timer.due <= now
    /\ flight' = flight \cup {Request(RefreshPath, storage.auth_refresh_token)}
    /\ sent' = sent \cup {Received(Request(RefreshPath, storage.auth_refresh_token), now)}
    /\ timer' = [timer EXCEPT !.state = "fired"]
    /\ UNCHANGED <<now, sdk, storage, ttl, pairs>>

refresh_onResponse(m) ==
    /\ m.path = RefreshPath
    /\ onTokens(m)

\* the server rejects the refresh: the client drops its session
refresh_onReject(m) ==
    /\ m \in flight
    /\ m.path = RefreshPath
    /\ storage' = NoSession
    /\ timer' = NoTimer
    /\ flight' = flight \ {m}
    /\ UNCHANGED <<now, sdk, ttl, pairs, sent>>

\* sdk.auth.logout() from an Active session, up to the request
auth_logout ==
    /\ Active
    /\ \A m \in flight : m.path # LogoutPath
    /\ flight' = flight \cup {Request(LogoutPath, storage.auth_refresh_token)}
    /\ sent' = sent \cup {Received(Request(LogoutPath, storage.auth_refresh_token), now)}
    /\ timer' = clearTimer(timer)
    /\ UNCHANGED <<now, sdk, storage, ttl, pairs>>

\* the answer to the logout arrives
logout_onResponse(m) ==
    /\ m \in flight
    /\ m.path = LogoutPath
    /\ storage' = NoSession
    /\ timer' = NoTimer
    /\ flight' = flight \ {m}
    /\ UNCHANGED <<now, sdk, ttl, pairs, sent>>

VerifyOff ==
    /\ vResult = [i \in Attempts |-> "idle"]
    /\ vClient = [i \in Attempts |-> "none"]
    /\ vBind = [i \in Attempts |-> "none"]
    /\ vEvent = [i \in Attempts |-> "none"]

DriverOff ==
    /\ req = [r \in Reqs |-> IdleReq]
    /\ ops = [r \in Reqs |-> {}]
    /\ users = <<>>
    /\ groupDn = Undefined

(***************************************************************************)
(* Spec: the driver serving one request after another, with every kind of  *)
(* directory answer.                                                       *)
(***************************************************************************)
OneAtATime == {1}

Init == DriverInit /\ VerifyOff /\ CtorOff /\ RouterOff /\ ClientOff

Next ==
    \/ CallGetUserID(OneAtATime, Values) /\ UNCHANGED <<verifyVars, ctorVars, routerVars, clientVars>>
    \/ CallRefresh(OneAtATime) /\ UNCHANGED <<verifyVars, ctorVars, routerVars, clientVars>>
    \/ Returns(OneAtATime) /\ UNCHANGED <<verifyVars, ctorVars, routerVars, clientVars>>
    \/ HealthSearchErr(OneAtATime, LdapErrors) /\ UNCHANGED <<verifyVars, ctorVars, routerVars, clientVars>>
    \/ HealthEntry(OneAtATime) /\ UNCHANGED <<verifyVars, ctorVars, routerVars, clientVars>>
    \/ HealthError(OneAtATime, LdapErrors) /\ UNCHANGED <<verifyVars, ctorVars, routerVars, clientVars>>
    \/ HealthRebind(OneAtATime, LdapErrors) /\ UNCHANGED <<verifyVars, ctorVars, routerVars, clientVars>>
    \/ HealthEnd(OneAtATime, EndResults) /\ UNCHANGED <<verifyVars, ctorVars, routerVars, clientVars>>
    \/ DnSearchErr(OneAtATime, LdapErrors) /\ UNCHANGED <<verifyVars, ctorVars, routerVars, clientVars>>
    \/ DnEntry(OneAtATime, DNs) /\ UNCHANGED <<verifyVars, ctorVars, routerVars, clientVars>>
    \/ DnError(OneAtATime, LdapErrors) /\ UNCHANGED <<verifyVars, ctorVars, routerVars, clientVars>>
    \/ DnEnd(OneAtATime) /\ UNCHANGED <<verifyVars, ctorVars, routerVars, clientVars>>
    \/ FetchUserId(OneAtATime) /\ UNCHANGED <<verifyVars, ctorVars, routerVars, clientVars>>
    \/ GroupsSearchErr(OneAtATime, LdapErrors) /\ UNCHANGED <<verifyVars, ctorVars, routerVars, clientVars>>
    \/ GroupsEntry(OneAtATime, CnValues) /\ UNCHANGED <<verifyVars, ctorVars, routerVars, clientVars>>
    \/ GroupsError(OneAtATime, LdapErrors) /\ UNCHANGED <<verifyVars, ctorVars, routerVars, clientVars>>
    \/ GroupsEnd(OneAtATime) /\ UNCHANGED <<verifyVars, ctorVars, routerVars, clientVars>>
    \/ RoleQuery(OneAtATime) /\ UNCHANGED <<verifyVars, ctorVars, routerVars, clientVars>>
    \/ UpdateOne(OneAtATime) /\ UNCHANGED <<verifyVars, ctorVars, routerVars, clientVars>>
    \/ InfoSearchErr(OneAtATime, LdapErrors) /\ UNCHANGED <<verifyVars, ctorVars, routerVars, clientVars>>
    \/ InfoEntry(OneAtATime, InfoObjects) /\ UNCHANGED <<verifyVars, ctorVars, routerVars, clientVars>>
    \/ InfoError(OneAtATime, LdapErrors) /\ UNCHANGED <<verifyVars, ctorVars, routerVars, clientVars>>
    \/ InfoEnd(OneAtATime) /\ UNCHANGED <<verifyVars, ctorVars, routerVars, clientVars>>
    \/ CreateOne(OneAtATime) /\ UNCHANGED <<verifyVars, ctorVars, routerVars, clientVars>>
    \/ Refetch(OneAtATime) /\ UNCHANGED <<verifyVars, ctorVars, routerVars, clientVars>>

Spec == Init /\ [][Next]_vars

InitVerify == VerifyInit /\ DriverOff /\ CtorOff /\ RouterOff /\ ClientOff

SpecVerify == InitVerify /\ [][NextVerify]_vars

(***************************************************************************)
(* SpecCtor: constructions of the driver, for every configuration.         *)
(***************************************************************************)
InitCtor == CtorInit /\ VerifyOff /\ DriverOff /\ RouterOff /\ ClientOff

NextCtor == constructor /\ UNCHANGED <<verifyVars, driverVars, routerVars, clientVars>>

SpecCtor == InitCtor /\ [][NextCtor]_vars

(***************************************************************************)
(* SpecRouter: login requests to the router, one after another.            *)
(***************************************************************************)
InitRouter == RouterInit /\ VerifyOff /\ DriverOff /\ CtorOff /\ ClientOff

NextRouter ==
    (\E b \in Bodies, login \in LoginResults : postLogin(b, login))
        /\ UNCHANGED <<verifyVars, driverVars, ctorVars, clientVars>>

SpecRouter == InitRouter /\ [][NextRouter]_vars

(***************************************************************************)
(* SpecClient: one SDK client, for every option, with logins, logouts and  *)
(* the timer, the server answering each request after any delay.           *)
(***************************************************************************)
InitClient == ClientInit /\ VerifyOff /\ DriverOff /\ CtorOff /\ RouterOff

NextClient ==
    \/ auth_login /\ UNCHANGED <<verifyVars, driverVars, ctorVars, routerVars>>
    \/ (\E m \in flight : login_onResponse(m))
        /\ UNCHANGED <<verifyVars, driverVars, ctorVars, routerVars>>
    \/ (\E m \in flight : login_onReject(m))
        /\ UNCHANGED <<verifyVars, driverVars, ctorVars, routerVars>>
    \/ tick /\ UNCHANGED <<verifyVars, driverVars, ctorVars, routerVars>>
    \/ timer_fire /\ UNCHANGED <<verifyVars, driverVars, ctorVars, routerVars>>
    \/ (\E m \in flight : refresh_onResponse(m))
        /\ UNCHANGED <<verifyVars, driverVars, ctorVars, routerVars>>
    \/ (\E m \in flight : refresh_onReject(m))
        /\ UNCHANGED <<verifyVars, driverVars, ctorVars, routerVars>>
    \/ auth_logout /\ UNCHANGED <<verifyVars, driverVars, ctorVars, routerVars>>
    \/ (\E m \in flight : logout_onResponse(m))
        /\ UNCHANGED <<verifyVars, driverVars, ctorVars, routerVars>>

SpecClient == InitClient /\ [][NextClient]_vars

(***************************************************************************)
(* SpecBoundary: verify, getUserID and refresh called one after another on *)
(* one driver, the directory answering each operation with every error;    *)
(* the entries it delivers are of one user in one group.                   *)
(***************************************************************************)
OneUserDn == {"cn=ann"}
OneGroupCn == {Scalar("ADMIN")}
OneUserObject ==
    {[givenName |-> Scalar("Ann"), sn |-> Scalar("Lee"), mail |-> Scalar("ann@x"),
      userAccountControl |-> Scalar(514)]}

InitBoundary == DriverInit /\ VerifyInit /\ CtorOff /\ RouterOff /\ ClientOff

NextBoundary ==
    \/ (\E id \in Values, pw \in Values : verify(1, id, pw))
        /\ UNCHANGED <<driverVars, ctorVars, routerVars, clientVars>>
    \/ (\E e \in TransportErrors, queued \in BOOLEAN : verify_onError(1, e, queued))
        /\ UNCHANGED <<driverVars, ctorVars, routerVars, clientVars>>
    \/ (\E err \in BindReplies(1) : verify_onBind(1, err))
        /\ UNCHANGED <<driverVars, ctorVars, routerVars, clientVars>>
    \/ CallGetUserID(OneAtATime, Values) /\ UNCHANGED <<verifyVars, ctorVars, routerVars, clientVars>>
    \/ CallRefresh(OneAtATime) /\ UNCHANGED <<verifyVars, ctorVars, routerVars, clientVars>>
    \/ Returns(OneAtATime) /\ UNCHANGED <<verifyVars, ctorVars, routerVars, clientVars>>
    \/ HealthSearchErr(OneAtATime, LdapErrors) /\ UNCHANGED <<verifyVars, ctorVars, routerVars, clientVars>>
    \/ HealthEntry(OneAtATime) /\ UNCHANGED <<verifyVars, ctorVars, routerVars, clientVars>>
    \/ HealthError(OneAtATime, LdapErrors) /\ UNCHANGED <<verifyVars, ctorVars, routerVars, clientVars>>
    \/ HealthRebind(OneAtATime, LdapErrors) /\ UNCHANGED <<verifyVars, ctorVars, routerVars, clientVars>>
    \/ HealthEnd(OneAtATime, EndResults) /\ UNCHANGED <<verifyVars, ctorVars, routerVars, clientVars>>
    \/ DnSearchErr(OneAtATime, LdapErrors) /\ UNCHANGED <<verifyVars, ctorVars, routerVars, clientVars>>
    \/ DnEntry(OneAtATime, OneUserDn) /\ UNCHANGED <<verifyVars, ctorVars, routerVars, clientVars>>
    \/ DnError(OneAtATime, LdapErrors) /\ UNCHANGED <<verifyVars, ctorVars, routerVars, clientVars>>
    \/ DnEnd(OneAtATime) /\ UNCHANGED <<verifyVars, ctorVars, routerVars, clientVars>>
    \/ FetchUserId(OneAtATime) /\ UNCHANGED <<verifyVars, ctorVars, routerVars, clientVars>>
    \/ GroupsSearchErr(OneAtATime, LdapErrors) /\ UNCHANGED <<verifyVars, ctorVars, routerVars, clientVars>>
    \/ GroupsEntry(OneAtATime, OneGroupCn) /\ UNCHANGED <<verifyVars, ctorVars, routerVars, clientVars>>
    \/ GroupsError(OneAtATime, LdapErrors) /\ UNCHANGED <<verifyVars, ctorVars, routerVars, clientVars>>
    \/ GroupsEnd(OneAtATime) /\ UNCHANGED <<verifyVars, ctorVars, routerVars, clientVars>>
    \/ RoleQuery(OneAtATime) /\ UNCHANGED <<verifyVars, ctorVars, routerVars, clientVars>>
    \/ UpdateOne(OneAtATime) /\ UNCHANGED <<verifyVars, ctorVars, routerVars, clientVars>>
    \/ InfoSearchErr(OneAtATime, LdapErrors) /\ UNCHANGED <<verifyVars, ctorVars, routerVars, clientVars>>
    \/ InfoEntry(OneAtATime, OneUserObject) /\ UNCHANGED <<verifyVars, ctorVars, routerVars, clientVars>>
    \/ InfoError(OneAtATime, LdapErrors) /\ UNCHANGED <<verifyVars, ctorVars, routerVars, clientVars>>
    \/ InfoEnd(OneAtATime) /\ UNCHANGED <<verifyVars, ctorVars, routerVars, clientVars>>
    \/ CreateOne(OneAtATime) /\ UNCHANGED <<verifyVars, ctorVars, routerVars, clientVars>>
    \/ Refetch(OneAtATime) /\ UNCHANGED <<verifyVars, ctorVars, routerVars, clientVars>>

SpecBoundary == InitBoundary /\ [][NextBoundary]_vars

(***************************************************************************)
(* SpecConcurrent: getUserID and refresh calls running at once on one      *)
(* driver, their callbacks interleaved in every order.  The directory      *)
(* holds one user, whose dn it spells in either case, in one group.        *)
(***************************************************************************)
SomeErrors == {"OperationsError", "ConnectionError"}
EitherCaseDn == {"CN=Ann", "cn=ann"}
SuccessResult == {"status 0"}

NextConcurrent ==
    \/ CallGetUserID(Reqs, {"x"}) /\ UNCHANGED <<verifyVars, ctorVars, routerVars, clientVars>>
    \/ CallRefresh(Reqs) /\ UNCHANGED <<verifyVars, ctorVars, routerVars, clientVars>>
    \/ Returns(Reqs) /\ UNCHANGED <<verifyVars, ctorVars, routerVars, clientVars>>
    \/ HealthSearchErr(Reqs, SomeErrors) /\ UNCHANGED <<verifyVars, ctorVars, routerVars, clientVars>>
    \/ HealthEntry(Reqs) /\ UNCHANGED <<verifyVars, ctorVars, routerVars, clientVars>>
    \/ HealthError(Reqs, SomeErrors) /\ UNCHANGED <<verifyVars, ctorVars, routerVars, clientVars>>
    \/ HealthRebind(Reqs, SomeErrors) /\ UNCHANGED <<verifyVars, ctorVars, routerVars, clientVars>>
    \/ HealthEnd(Reqs, SuccessResult) /\ UNCHANGED <<verifyVars, ctorVars, routerVars, clientVars>>
    \/ DnSearchErr(Reqs, SomeErrors) /\ UNCHANGED <<verifyVars, ctorVars, routerVars, clientVars>>
    \/ DnEntry(Reqs, EitherCaseDn) /\ UNCHANGED <<verifyVars, ctorVars, routerVars, clientVars>>
    \/ DnError(Reqs, SomeErrors) /\ UNCHANGED <<verifyVars, ctorVars, routerVars, clientVars>>
    \/ DnEnd(Reqs) /\ UNCHANGED <<verifyVars, ctorVars, routerVars, clientVars>>
    \/ FetchUserId(Reqs) /\ UNCHANGED <<verifyVars, ctorVars, routerVars, clientVars>>
    \/ GroupsSearchErr(Reqs, SomeErrors) /\ UNCHANGED <<verifyVars, ctorVars, routerVars, clientVars>>
    \/ GroupsEntry(Reqs, OneGroupCn) /\ UNCHANGED <<verifyVars, ctorVars, routerVars, clientVars>>
    \/ GroupsError(Reqs, SomeErrors) /\ UNCHANGED <<verifyVars, ctorVars, routerVars, clientVars>>
    \/ GroupsEnd(Reqs) /\ UNCHANGED <<verifyVars, ctorVars, routerVars, clientVars>>
    \/ RoleQuery(Reqs) /\ UNCHANGED <<verifyVars, ctorVars, routerVars, clientVars>>
    \/ UpdateOne(Reqs) /\ UNCHANGED <<verifyVars, ctorVars, routerVars, clientVars>>
    \/ InfoSearchErr(Reqs, SomeErrors) /\ UNCHANGED <<verifyVars, ctorVars, routerVars, clientVars>>
    \/ InfoEntry(Reqs, OneUserObject) /\ UNCHANGED <<verifyVars, ctorVars, routerVars, clientVars>>
    \/ InfoError(Reqs, SomeErrors) /\ UNCHANGED <<verifyVars, ctorVars, routerVars, clientVars>>
    \/ InfoEnd(Reqs) /\ UNCHANGED <<verifyVars, ctorVars, routerVars, clientVars>>
    \/ CreateOne(Reqs) /\ UNCHANGED <<verifyVars, ctorVars, routerVars, clientVars>>
    \/ Refetch(Reqs) /\ UNCHANGED <<verifyVars, ctorVars, routerVars, clientVars>>

SpecConcurrent == Init /\ [][NextConcurrent]_vars

(***************************************************************************)
(* C1: a verify() call that attempted the bind and has settled ended by    *)
(* the class of what happened: InvalidCredentials exactly when the bind    *)
(* was rejected with invalid credentials, inappropriate authentication or  *)
(* insufficient access rights; ServiceUnavailable exactly when the bind    *)
(* was rejected with any other error or the client reported a transport    *)
(* error; success exactly when the bind succeeded.                         *)
(***************************************************************************)
C1_VerifyClassifiesBindFailures ==
    \A i \in Attempts :
        (vClient[i] # "none" /\ vResult[i] # "pending") =>
            LET credential == vBind[i] \in {"InvalidCredentialsError",
                                            "InappropriateAuthenticationError",
                                            "InsufficientAccessRightsError"}
                other == \/ vBind[i] \in LdapErrors /\ ~credential
                         \/ vEvent[i] # "none"
            IN  /\ credential <=> vResult[i] = "InvalidCredentials"
                /\ other <=> vResult[i] = "ServiceUnavailable"
                /\ vBind[i] = "ok" <=> vResult[i] = "ok"

\* each kind of outcome has happened: a credential-class rejection, another
\* directory error, a transport error through the 'error' event, a success
C1_Witness ==
    \E i, j \in Attempts :
        /\ vBind[i] = "InsufficientAccessRightsError" /\ vResult[i] = "InvalidCredentials"
        /\ vEvent[j] = "SocketError" /\ vResult[j] = "ServiceUnavailable"

(***************************************************************************)
(* C2: once a verify() call has settled and no bind callback is still to   *)
(* come, the connection it opened has been destroyed.                      *)
(***************************************************************************)
C2_ConnectionDestroyedAfterAttempt ==
    \A i \in Attempts :
        (vClient[i] # "none" /\ vResult[i] # "pending" /\ vBind[i] # "sent") =>
            vClient[i] = "destroyed"

(***************************************************************************)
(* C3: a successful login through the router answers by its mode.  With    *)
(* mode json, or without mode, the body holds the access token, the expiry *)
(* and the refresh token, and no cookie is set.  With mode cookie the body *)
(* holds the access token and the expiry and no refresh token, and the     *)
(* refresh token is the value of an HttpOnly cookie whose max-age is the   *)
(* refresh-token TTL and whose SameSite is strict unless configured.       *)
(***************************************************************************)
C3_LoginResponseByMode ==
    resp.status = "ok" =>
        /\ tokens.ok
        /\ resp.access_token = tokens.accessToken
        /\ resp.expires = tokens.expires
        /\ body.mode \in {Undefined, "json", "cookie"}
        /\ body.mode \in {Undefined, "json"} =>
               /\ resp.refresh_token = tokens.refreshToken
               /\ ~resp.cookie.set
        /\ body.mode = "cookie" =>
               /\ resp.refresh_token = Undefined
               /\ resp.cookie.set
               /\ resp.cookie.value = tokens.refreshToken
               /\ resp.cookie.httpOnly
               /\ env.REFRESH_TOKEN_TTL = "7d" => resp.cookie.maxAge = 604800000
               /\ env.REFRESH_TOKEN_TTL = "15m" => resp.cookie.maxAge = 900000
               /\ resp.cookie.sameSite =
                      IF env.REFRESH_TOKEN_COOKIE_SAME_SITE \in {Undefined, ""}
                      THEN "strict" ELSE env.REFRESH_TOKEN_COOKIE_SAME_SITE

\* a login in cookie mode succeeded where no SameSite is configured
C3_Witness ==
    /\ resp.status = "ok" /\ body.mode = "cookie"
    /\ env.REFRESH_TOKEN_COOKIE_SAME_SITE = Undefined
    /\ resp.cookie.value = "RT2"

(***************************************************************************)
(* C9: the constructor throws InvalidConfig exactly when bindDn,           *)
(* bindPassword, userDn or provider is missing (absent or empty), or both  *)
(* clientUrl and client.socketPath are; and then no bind client has been   *)
(* created.                                                                *)
(***************************************************************************)
C9_InvalidConfigIffFieldMissing ==
    driver # "new" =>
        LET missing(v) == v \in {Undefined, ""}
            noSocketPath == ~config.client.object \/ missing(config.client.socketPath)
            incomplete == \/ missing(config.bindDn) \/ missing(config.bindPassword)
                          \/ missing(config.userDn) \/ missing(config.provider)
                          \/ (missing(config.clientUrl) /\ noSocketPath)
        IN  /\ driver = "InvalidConfig" <=> incomplete
            /\ driver = "InvalidConfig" => bindClient = "none"

\* the constructor threw for a configuration that has neither URL nor socket path
C9_Witness ==
    /\ driver = "InvalidConfig"
    /\ config.bindDn = "x" /\ config.bindPassword = "x" /\ config.userDn = "x"
    /\ config.provider = "x"
    /\ config.clientUrl = Undefined /\ config.client.object /\ config.client.socketPath = ""

(***************************************************************************)
(* C4: a getUserID call whose distinguished name is already linked (its    *)
(* fetchUserId found a user) never searches the descriptive attributes     *)
(* and never creates a user; when it returns, it returns the id of a user  *)
(* whose external identifier is that name ignoring case; and its only      *)
(* write to directus_users sets the role of that user: the number of       *)
(* users and every other field of every user stay as they were.            *)
(***************************************************************************)
Linked(q) == q.call = "getUserID" /\ q.userId # 0 /\ q.last # "create"

C4_LinkedPathState ==
    \A r \in Reqs :
        Linked(req[r]) =>
            /\ req[r].pc \in {"groups", "role", "update", "done"}
            /\ "info" \notin ops[r]
            /\ req[r].result = "ok" =>
                   /\ req[r].last = "update"
                   /\ req[r].userId \in 1..Len(users)
                   /\ toLowerCase(users[req[r].userId].external_identifier) = req[r].userDn

C4_LinkedPathStep ==
    \A r \in Reqs :
        (Linked(req[r]) /\ req'[r] # req[r]) =>
            /\ Len(users') = Len(users)
            /\ \A i \in 1..Len(users) :
                   /\ [users'[i] EXCEPT !.role = 0] = [users[i] EXCEPT !.role = 0]
                   /\ i # req[r].userId => users'[i] = users[i]

C4_LinkedOnlyUpdatesRole == [](C4_LinkedPathState) /\ [][C4_LinkedPathStep]_vars

\* a linked user has been authenticated again and got another role than it had
C4_Witness ==
    \E r \in Reqs :
        /\ Linked(req[r]) /\ req[r].pc = "done" /\ req[r].last = "update"
        /\ Len(users) = 2
        /\ users[req[r].userId].role = 2

(***************************************************************************)
(* C5: a refresh whose attribute search found the user's entry fails with  *)
(* InvalidCredentials whenever the entry's userAccountControl has the      *)
(* ACCOUNTDISABLE (2), LOCKOUT (16) or PASSWORD_EXPIRED (8388608) bit set, *)
(* whatever its other bits; and the bits of INVALID_ACCOUNT_FLAGS are      *)
(* exactly those three.                                                    *)
(***************************************************************************)
Bits31 == {2^k : k \in 0..30}
    \* the bits of a non-negative 32-bit integer

HasBit(n, b) == (n \div b) % 2 = 1

C5_RefreshRejectsFlaggedAccount ==
    /\ \A b \in Bits31 : HasBit(INVALID_ACCOUNT_FLAGS, b) <=> b \in {2, 16, 8388608}
    /\ \A r \in Reqs :
           LET q == req[r]
               uac == q.userInfo.userAccountControl
           IN  (/\ q.call = "refresh" /\ q.pc = "done" /\ q.last = "info entry"
                /\ ~uac.nan
                /\ HasBit(uac.n, 2) \/ HasBit(uac.n, 16) \/ HasBit(uac.n, 8388608))
               => q.result = "InvalidCredentials"

\* a refresh was rejected for an account that is locked out only, with both other bits set
C5_Witness ==
    \E r \in Reqs :
        /\ req[r].call = "refresh" /\ req[r].pc = "done" /\ req[r].last = "info entry"
        /\ req[r].userInfo.userAccountControl = Num(16 + 512 + 65536)
        /\ req[r].result = "InvalidCredentials"

(***************************************************************************)
(* C6: getUserID ends with the same exception, InvalidCredentials, the one *)
(* a wrong secret gives, when the payload has no identifier, when the user *)
(* search ends without an entry, and when the attribute search of an       *)
(* unlinked entry ends without an entry.                                   *)
(***************************************************************************)
C6_SameInvalidCredentials ==
    \A r \in Reqs :
        (/\ req[r].call = "getUserID" /\ req[r].pc = "done"
         /\ req[r].last \in {"no identifier", "dn end", "info end"})
        => /\ req[r].result = "InvalidCredentials"
           /\ req[r].result = handleError("InvalidCredentialsError")

\* the attribute search of an unlinked entry ended without an entry
C6_Witness ==
    \E r \in Reqs :
        /\ req[r].call = "getUserID" /\ req[r].pc = "done" /\ req[r].last = "info end"
        /\ req[r].userId = 0 /\ req[r].userDn = "cn=ann"
        /\ req[r].result = "InvalidCredentials"

\* the refresh requests the server received
Refreshes == {e \in sent : e.path = RefreshPath}

\* the pairs the server issued in answer to a refresh
RefreshedPairs == {n \in 1..Len(pairs) : pairs[n].by = RefreshPath}

\* when the access token of the n-th pair expires
ExpiryOf(n) == pairs[n].at + pairs[n].expires

\* the pair whose refresh token the request for the n-th pair carried
CarriedBy(n) == pairs[n].carried.n

\* when the refresh request carrying the refresh token of pair n was sent
AskedAt(n) == (CHOOSE e \in Refreshes : e.refresh_token = RefreshToken(n)).at

\* every refresh request carries the refresh token of an issued pair, was
\* sent exactly at that pair's expiry less the lead time, and is the only
\* one with that token; the clock never passes the due time of an armed
\* timer; a session held with autoRefresh whose timer no later login or
\* logout call cancelled has its refresh pending or sent; what the client
\* holds is the last pair issued
RefreshSentAtLeadTime ==
    /\ \A e \in Refreshes :
        /\ e.refresh_token.kind = "refresh"
        /\ e.refresh_token.n \in 1..Len(pairs)
        /\ e.at = ExpiryOf(e.refresh_token.n) - sdk.msRefreshBeforeExpires
        /\ \A f \in Refreshes : f.refresh_token = e.refresh_token => f = e
    /\ timer.state = "armed" =>
        /\ Active
        /\ now <= timer.due
        /\ timer.due = storage.expires_at - sdk.msRefreshBeforeExpires
    /\ (Active /\ sdk.autoRefresh /\ timer.state # "cancelled") =>
        \/ timer.state = "armed"
        \/ /\ timer.state = "fired"
           /\ \E e \in Refreshes : /\ e.refresh_token = storage.auth_refresh_token
                                   /\ e.at = timer.due
    /\ Active =>
        /\ storage.auth_token = AccessToken(Len(pairs))
        /\ storage.auth_expires = pairs[Len(pairs)].expires
        /\ storage.expires_at = ExpiryOf(Len(pairs))

(***************************************************************************)
(* C7 as stated: with autoRefresh and lead time L, exactly one refresh     *)
(* request carrying the stored refresh token is sent at E - L, not earlier *)
(* and not never, and its answer replaces the stored access token and      *)
(* expiry before the old access token expires.                             *)
(***************************************************************************)
C7_RefreshedBeforeOldExpiry ==
    /\ RefreshSentAtLeadTime
    /\ \A n \in RefreshedPairs : pairs[n].at < ExpiryOf(CarriedBy(n))

(***************************************************************************)
(* C7, amended: with autoRefresh and lead time L, exactly one refresh      *)
(* request carrying the stored refresh token is sent at E - L, not earlier *)
(* and not never; when the server answers it with a new pair, that pair    *)
(* replaces the stored access token and expiry, and this happens before    *)
(* the old access token expires whenever the answer arrives less than L    *)
(* after the request.                                                      *)
(***************************************************************************)
C7_RefreshAtLeadTime ==
    /\ RefreshSentAtLeadTime
    /\ \A n \in RefreshedPairs :
        pairs[n].at - AskedAt(CarriedBy(n)) < sdk.msRefreshBeforeExpires
            => pairs[n].at < ExpiryOf(CarriedBy(n))

\* the timer's refresh was answered in time and the client holds the new pair
C7_Witness ==
    \E n \in RefreshedPairs :
        /\ sdk.autoRefresh
        /\ storage.auth_token = AccessToken(n)
        /\ AskedAt(CarriedBy(n)) = ExpiryOf(CarriedBy(n)) - sdk.msRefreshBeforeExpires
        /\ pairs[n].at > AskedAt(CarriedBy(n))
        /\ pairs[n].at < ExpiryOf(CarriedBy(n))

(***************************************************************************)
(* C8: a logout is sent from an Active session and its body carries the    *)
(* refresh token the client holds, which is the one of the body of the     *)
(* answer that gave the held access token and not the cookie's; when the   *)
(* logout is answered the stored access token is null.                     *)
(***************************************************************************)
C8_LogoutStep ==
    /\ \A m \in flight' \ flight :
        m.path = LogoutPath =>
            /\ Active
            /\ m.refresh_token = storage.auth_refresh_token
            /\ m.refresh_token = RefreshToken(storage.auth_token.n)
    /\ (\E m \in flight \ flight' : m.path = LogoutPath) => storage'.auth_token = Null

C8_LogoutSendsHeldRefreshToken == [][C8_LogoutStep]_vars

\* a logout carrying the body's refresh token was answered; no refresh was sent
C8_Witness ==
    /\ storage.auth_token = Null
    /\ \A m \in flight : m.path # LogoutPath
    /\ \E e \in sent : e.path = LogoutPath /\ e.refresh_token = RefreshToken(1)
    /\ Refreshes = {}

(***************************************************************************)
(* C10 as stated: a health check settled by the rebind's callback succeeds *)
(* if the rebind succeeded and fails with InvalidConfig if the rebind      *)
(* failed, whatever the failure.                                           *)
(***************************************************************************)
C10_RebindFailureIsInvalidConfig ==
    \A r \in Reqs :
        req[r].hcBy = "rebind" =>
            /\ req[r].hcErr = "ok" => req[r].hc = "ok"
            /\ req[r].hcErr # "ok" => req[r].hc = "InvalidConfig"

(***************************************************************************)
(* C10, amended: a health check settled by the rebind's callback succeeds  *)
(* if the rebind succeeded, fails with InvalidConfig if the rebind was     *)
(* rejected with a credential-class error, and fails with                  *)
(* ServiceUnavailable if the rebind failed in any other way; it never      *)
(* fails with InvalidCredentials.                                          *)
(***************************************************************************)
C10_RebindOutcomeByClass ==
    \A r \in Reqs :
        req[r].hcBy = "rebind" =>
            LET credential == req[r].hcErr \in {"InvalidCredentialsError",
                                                "InappropriateAuthenticationError",
                                                "InsufficientAccessRightsError"}
            IN  /\ req[r].hcErr = "ok" => req[r].hc = "ok"
                /\ credential => req[r].hc = "InvalidConfig"
                /\ (req[r].hcErr # "ok" /\ ~credential) => req[r].hc = "ServiceUnavailable"
                /\ req[r].hc # "InvalidCredentials"

\* the service account's rebind was rejected for its credentials
C10_Witness ==
    \E r \in Reqs :
        /\ req[r].hcBy = "rebind" /\ req[r].hcErr = "InvalidCredentialsError"
        /\ req[r].pc = "done" /\ req[r].result = "InvalidConfig"

(***************************************************************************)
(* C11: whatever verify, getUserID or refresh ends with, and whatever the  *)
(* health check settles with, is success or one of InvalidCredentials,     *)
(* InvalidConfig, ServiceUnavailable and UnexpectedResponse; an error of   *)
(* the directory client never is the result, whether it came by a search   *)
(* callback, a search 'error' event, a bind callback or the client's       *)
(* 'error' event.                                                          *)
(***************************************************************************)
Taxonomy ==
    {InvalidCredentialsException, InvalidConfigException,
     ServiceUnavailableException, UnexpectedResponseException}

C11_OnlyTaxonomyErrorsSurface ==
    /\ \A i \in Attempts : vResult[i] \in {"idle", "pending", "ok"} \cup Taxonomy
    /\ \A r \in Reqs :
        /\ req[r].result \in {"none", "ok"} \cup Taxonomy
        /\ req[r].hc \in {"none", "pending", "ok"} \cup Taxonomy
        /\ req[r].result \notin LdapErrors /\ req[r].hc \notin LdapErrors
    /\ \A i \in Attempts : vResult[i] \notin LdapErrors

\* a verify ended by the client's 'error' event and a getUserID ended by a
\* search's 'error' event, both with an error handleError does not classify
C11_Witness ==
    /\ vEvent[1] = "SocketError" /\ vResult[1] = ServiceUnavailableException
    /\ req[1].call = "getUserID" /\ req[1].pc = "done" /\ req[1].last = "info error"
    /\ req[1].result = ServiceUnavailableException

(***************************************************************************)
(* C13: the role query of getUserID resolves the first role whose name     *)
(* equals, ignoring case, one of the user's group names, and none (null)   *)
(* when no group name matches a role; with no groups there is no query and *)
(* the role is null; for a linked user updateOne stores the resolved role, *)
(* null included, over the stored one.                                     *)
(***************************************************************************)
SameIgnoringCase(a, b) == toLowerCase(a) = toLowerCase(b)

\* role i is named, ignoring case, like one of the groups
RoleMatches(i, groups) ==
    \E k \in 1..Len(groups) : SameIgnoringCase(RoleNames[i], groups[k])

C13_RoleStep ==
    \A r \in Reqs :
        /\ (req[r].pc = "role" /\ req'[r].pc # "role") =>
            LET role == req'[r].userRole
                groups == req[r].userGroups
            IN  /\ role \in 0..Len(RoleNames)
                /\ role # 0 => /\ RoleMatches(role, groups)
                               /\ \A j \in 1..(role - 1) : ~RoleMatches(j, groups)
                /\ role = 0 => \A j \in 1..Len(RoleNames) : ~RoleMatches(j, groups)
        /\ (req[r].pc \in {"fetchId", "groups"} /\ req'[r].pc \in {"update", "info"}) =>
            req'[r].userRole = 0
        /\ (req[r].pc = "update" /\ req'[r].pc = "done") =>
            /\ req[r].userId \in 1..Len(users)
            /\ users'[req[r].userId].role = req[r].userRole
            /\ req'[r].userId = req[r].userId

C13_RoleResolvedAndStored == [][C13_RoleStep]_vars

\* a linked user authenticated again and took the first role, "Admin", by its group "ADMIN"
C13_Witness ==
    \E r \in Reqs :
        /\ req[r].call = "getUserID" /\ req[r].pc = "done" /\ req[r].last = "update"
        /\ req[r].userRole = 1 /\ req[r].userId = 1
        /\ users[1].role = 1

(***************************************************************************)
(* C14: of an entry's givenName, sn, mail and userAccountControl, the user *)
(* that fetchUserInfo builds has the first element of a list and a scalar  *)
(* as it is (the account control as the number it spells), and so has the  *)
(* user createOne stores; each entry of the group search appends all the   *)
(* values of its cn, in order, after those of the entries before it, and   *)
(* at 'end' the list so far is what getUserID goes on with.                *)
(***************************************************************************)
\* v is the attribute a reduced to one value
IsFirstOf(a, v) ==
    /\ a.kind = "list" => v = Head(a.vals)
    /\ a.kind = "scalar" => v = a.vals[1]
    /\ a.kind = "absent" => v = Undefined

C14_DisplayFields ==
    /\ \A r \in Reqs :
        req[r].userInfo.found =>
            \E o \in InfoObjects :
                /\ IsFirstOf(o.givenName, req[r].userInfo.firstName)
                /\ IsFirstOf(o.sn, req[r].userInfo.lastName)
                /\ IsFirstOf(o.mail, req[r].userInfo.email)
                /\ req[r].call = "refresh" =>
                    IF o.userAccountControl.kind = "absent"
                    THEN req[r].userInfo.userAccountControl.nan
                    ELSE /\ ~req[r].userInfo.userAccountControl.nan
                         /\ IsFirstOf(o.userAccountControl,
                                      req[r].userInfo.userAccountControl.n)
    /\ \A i \in 1..Len(users) :
        \E o \in InfoObjects :
            /\ IsFirstOf(o.givenName, users[i].first_name)
            /\ IsFirstOf(o.sn, users[i].last_name)
            /\ IsFirstOf(o.mail, users[i].email)

C14_GroupsStep ==
    \A r \in Reqs :
        /\ (/\ req[r].pc = "groups" /\ req'[r].pc = "groups"
            /\ req'[r].userGroups # req[r].userGroups) =>
            \E cn \in CnValues : /\ cn.kind # "absent"
                                 /\ req'[r].userGroups = req[r].userGroups \o cn.vals
        /\ (req[r].pc = "groups" /\ req'[r].pc \in {"role", "update", "info"}) =>
            IF req[r].userGroups = <<>>
            THEN req'[r].pc # "role"
            ELSE req'[r].pc = "role" /\ req'[r].userGroups = req[r].userGroups

C15_OutcomeByEvent ==
    \A r \in Reqs :
        /\ req[r].hcBy = "health entry" => req[r].hc = "ok"
        /\ req[r].hcBy = "health end" =>
            /\ req[r].hc = UnexpectedResponseException
            /\ req[r].hc \notin {InvalidCredentialsException, ServiceUnavailableException}
            /\ req[r].pc = "done" /\ req[r].result = UnexpectedResponseException

C15_SettledStep ==
    \A r \in Reqs :
        (req[r].hc \notin {"none", "pending"} /\ req'[r].pc # "idle") =>
            /\ req'[r].hc = req[r].hc
            /\ req'[r].hcBy = req[r].hcBy

C15_HealthOutcomeByEventOrder == [](C15_OutcomeByEvent) /\ [][C15_SettledStep]_vars

\* an entry settled the health check, the caller went on, and the self-search
\* has since terminated
C15_Witness ==
    \E r \in Reqs :
        /\ req[r].hcBy = "health entry" /\ req[r].hc = "ok"
        /\ "health" \notin ops[r]
        /\ req[r].pc = "dn"

(***************************************************************************)
(* C16: at any time at most one operation, search or rebind, that the      *)
(* driver issued on the shared bind client is outstanding, whichever way   *)
(* concurrent getUserID and refresh calls interleave; no search of one     *)
(* request is outstanding while another request's rebind is.               *)
(***************************************************************************)
RECURSIVE Outstanding(_)
Outstanding(R) ==
    IF R = {} THEN 0
    ELSE LET r == CHOOSE x \in R : TRUE
         IN  Cardinality(ops[r]) + Outstanding(R \ {r})

C16_AtMostOneOutstanding ==
    /\ Outstanding(Reqs) <= 1
    /\ \A r \in Reqs, t \in Reqs :
        (r # t /\ "rebind" \in ops[r]) => ops[t] \ {"rebind"} = {}

(***************************************************************************)
(* C17: no two internal users have external identifiers that are equal     *)
(* ignoring case, whichever way getUserID calls interleave.                *)
(***************************************************************************)
C17_NoDuplicateUsers ==
    \A i \in 1..Len(users), j \in 1..Len(users) :
        i # j => toLowerCase(users[i].external_identifier)
                    # toLowerCase(users[j].external_identifier)

(***************************************************************************)
(* C18: a getUserID that fails at the identifier check, the health check,  *)
(* the user search, the group search or the descriptive-attribute search   *)
(* has created no user and changed no role.  The user store changes only   *)
(* in the updateOne or createOne step of a call, which comes after the     *)
(* health check passed and the user's DN was found (and, for createOne,    *)
(* after the attribute search delivered the entry); from there on the call *)
(* does not fail, and a call fails only in a step of one of the earlier    *)
(* stages, a step that leaves the store as it was.                         *)
(***************************************************************************)
DirectoryStages == {"idle", "health", "dn", "groups", "info"}
StoreStages == {"update", "create", "refetch"}

C18_DirectoryStepsDone ==
    \A r \in Reqs :
        /\ req[r].pc \in StoreStages =>
            /\ req[r].call = "getUserID"
            /\ req[r].hc = "ok"
            /\ req[r].userDn # Undefined
            /\ req[r].result = "none"
        /\ req[r].pc = "create" => req[r].userInfo.found
        /\ req[r].pc = "update" => req[r].userId # 0

C18_StoreStep ==
    /\ users' # users =>
        \E r \in Reqs :
            /\ req[r].pc \in {"update", "create"}
            /\ req'[r].pc \in {"done", "refetch"}
            /\ req'[r].pc = "done" => req'[r].result = "ok"
    /\ \A r \in Reqs :
        /\ (req[r].pc \in StoreStages /\ req'[r] # req[r]) =>
            \/ req'[r].pc = "refetch"
            \/ req'[r].pc = "done" /\ req'[r].result = "ok"
        /\ (req[r].pc # "done" /\ req'[r].pc = "done" /\ req'[r].result # "ok") =>
            /\ req[r].pc \in DirectoryStages
            /\ users' = users

C18_StoreOnlyAfterDirectorySteps ==
    [](C18_DirectoryStepsDone) /\ [][C18_StoreStep]_vars

\* a getUserID failed at the attribute search, with a user of an earlier call in the store
C18_Witness ==
    /\ req[1].call = "getUserID"
    /\ req[1].pc = "done"
    /\ req[1].result \notin {"ok", "none"}
    /\ req[1].last = "info error"
    /\ Len(users) = 1

(***************************************************************************)
(* C19: every health check settles once its self-search has terminated:    *)
(* a health check is pending only while its search has not yet delivered   *)
(* 'end' or 'error', or while the callback of its rebind is still due, so  *)
(* the calling getUserID or refresh never waits forever.                   *)
(***************************************************************************)
C19_HealthCheckSettles ==
    \A r \in Reqs :
        req[r].hc = "pending" => ops[r] \cap {"health", "rebind"} # {}

(***************************************************************************)
(* C20, as claimed: a refresh fails with InvalidCredentials only if the    *)
(* user's entry was found with one of the three flagged bits set.          *)
(***************************************************************************)
FlaggedEntry(userInfo) ==
    /\ userInfo.found
    /\ ~userInfo.userAccountControl.nan
    /\ \E b \in {2, 16, 8388608} : HasBit(userInfo.userAccountControl.n, b)

C20_InvalidCredentialsOnlyIfFlagged ==
    \A r \in Reqs :
        (/\ req[r].call = "refresh" /\ req[r].pc = "done"
         /\ req[r].result = InvalidCredentialsException)
        => FlaggedEntry(req[r].userInfo)

(***************************************************************************)
(* C20, amended: a refresh fails with InvalidCredentials only if the       *)
(* user's entry was found with one of the three flagged bits set, or the   *)
(* health-check search or the attribute search itself failed with a        *)
(* directory error (of the credential class, for the health check).  When  *)
(* the health check passes and the attribute search ends without an entry, *)
(* or delivers an entry whose account control is absent, zero or has only  *)
(* unflagged bits set, refresh succeeds.                                   *)
(***************************************************************************)
C20_InvalidCredentialsOnlyIfFlaggedOrDirectoryError ==
    \A r \in Reqs :
        LET q == req[r]
        IN  (q.call = "refresh" /\ q.pc = "done") =>
            /\ q.result = InvalidCredentialsException =>
                \/ /\ q.hc = "ok" /\ q.last = "info entry"
                   /\ FlaggedEntry(q.userInfo)
                \/ /\ q.hc = "ok" /\ q.last \in {"info error", "info search err"}
                   /\ ~q.userInfo.found
                \/ /\ q.hc = InvalidCredentialsException
                   /\ q.last \in {"health error", "health search err"}
                   /\ q.hcErr \in CredentialErrors
            /\ (q.hc = "ok" /\ q.last = "info end") =>
                ~q.userInfo.found /\ q.result = "ok"
            /\ (q.hc = "ok" /\ q.last = "info entry" /\ ~FlaggedEntry(q.userInfo)) =>
                q.result = "ok"

\* a refresh passed the health check, its attribute search ended without an entry, and it succeeded
C20_Witness ==
    \E r \in Reqs :
        /\ req[r].call = "refresh" /\ req[r].pc = "done"
        /\ req[r].hc = "ok" /\ req[r].last = "info end"
        /\ req[r].result = "ok"

=============================================================================
